---- MODULE Spec2Model ----
(***************************************************************************)
(* Model of src/graph_utils.py: display_graph reads (source, relation,     *)
(* target) triples from the graph store, assembles the node list and edge  *)
(* list, builds a networkx DiGraph, renders it, and then serves scroll,    *)
(* press, release and motion callbacks that zoom and pan the axes limits.  *)
(* Axes limits are exact rationals <<numerator, denominator>>.             *)
(***************************************************************************)
EXTENDS Integers, Sequences, FiniteSets, TLC

VARIABLES
    pc,         \* where display_graph is (lines 8-202)
    driver,     \* the Neo4j driver: "unopened", "open", "closed" (30, 202)
    nReads,     \* calls of session.execute_read (71)
    session,    \* the session of the with block: "none", "open", "closed" (70-71)
    triples,    \* the records the query returns (52-59)
    nodes,      \* list of node names returned by get_graph_data (67)
    edges,      \* list of (source, target, type) returned by get_graph_data (67)
    G,          \* the networkx DiGraph (74-78)
    fig,        \* the figure: "none", "open", "shown", "closed" (81, 104-107, 199)
    listeners,  \* events connected with mpl_connect, in order (157, 194-196)
    retval,     \* what display_graph returned (108, 202)
    xlim,       \* ax.get_xlim() (130, 146, 187)
    ylim,       \* ax.get_ylim() (131, 150, 188)
    pan_start,  \* ax._pan_start (167, 173, 190)
    err,        \* the exception the last callback raised, or "none"
    drew,       \* whether the last callback called plt.draw() (154, 191)
    hist,       \* the event and state the last two callbacks started from
    nEvents     \* events delivered so far

vars == <<pc, driver, nReads, session, triples, nodes, edges, G, fig, listeners,
          retval, xlim, ylim, pan_start, err, drew, hist, nEvents>>

(* ----------------------------- bounds ---------------------------------- *)
MaxTriples == 2
MaxEvents == 3

(* --------------------------- rationals --------------------------------- *)
Abs(n) == IF n < 0 THEN -n ELSE n

RECURSIVE Gcd(_, _)
Gcd(a, b) == IF b = 0 THEN a ELSE Gcd(b, a % b)

Rat(n, d) ==
    LET s == IF d < 0 THEN -1 ELSE 1
        g == Gcd(Abs(n), Abs(d))
    IN  <<(s * n) \div g, (s * d) \div g>>

RInt(n) == <<n, 1>>
RAdd(a, b) == Rat(a[1] * b[2] + b[1] * a[2], a[2] * b[2])
RSub(a, b) == Rat(a[1] * b[2] - b[1] * a[2], a[2] * b[2])
RMul(a, b) == Rat(a[1] * b[1], a[2] * b[2])
RDiv(a, b) == Rat(a[1] * b[2], a[2] * b[1])
RLt(a, b) == a[1] * b[2] < b[1] * a[2]
RLe(a, b) == a[1] * b[2] <= b[1] * a[2]

(* ------------------------- graph assembly ------------------------------ *)
Null == "<null>"
NameValues == {Null, "", "A", "B"}
RelTypes == {"KNOWS", "LIKES"}

\* A record of the query: every node n, with its outgoing relationship and
\* target if it has one; n.name and m.name may each be missing.
Records ==
    {[source_name |-> s, relationship_type |-> Null, target_name |-> Null] :
        s \in NameValues}
    \cup
    {[source_name |-> s, relationship_type |-> r, target_name |-> t] :
        s \in NameValues, r \in RelTypes, t \in NameValues}

RECURSIVE SeqsUpTo(_, _)
SeqsUpTo(S, n) ==
    IF n = 0 THEN {<<>>}
    ELSE LET shorter == SeqsUpTo(S, n - 1)
         IN  shorter \cup {Append(q, e) : q \in {p \in shorter : Len(p) = n - 1}, e \in S}

\* Python truth value of a name: None and the empty string are false.
Truthy(v) == v # Null /\ v # ""

\* One pass of the loop body over the set `nodes`.
AddRecordNodes(ns, rec) ==
    LET afterSource == IF Truthy(rec.source_name) THEN ns \cup {rec.source_name} ELSE ns
    IN  IF Truthy(rec.target_name) THEN afterSource \cup {rec.target_name} ELSE afterSource

\* One pass of the loop body over the list `edges`.
AddRecordEdges(es, rec) ==
    IF Truthy(rec.target_name)
    THEN Append(es, <<rec.source_name, rec.target_name, rec.relationship_type>>)
    ELSE es

\* The set `nodes` after the loop has consumed the first k records.
RECURSIVE NodeSetOf(_, _)
NodeSetOf(recs, k) ==
    IF k = 0 THEN {} ELSE AddRecordNodes(NodeSetOf(recs, k - 1), recs[k])

\* The list `edges` after the loop has consumed the first k records.
RECURSIVE EdgeListOf(_, _)
EdgeListOf(recs, k) ==
    IF k = 0 THEN <<>> ELSE AddRecordEdges(EdgeListOf(recs, k - 1), recs[k])

\* list(nodes): the elements of the set, each once, in an order the set decides.
ListsOf(S) ==
    {q \in [1..Cardinality(S) -> S] : \A e \in S : \E i \in DOMAIN q : q[i] = e}

(* --------------------------- networkx DiGraph -------------------------- *)
EmptyGraph == [node |-> {}, edge |-> {}]

\* DiGraph.add_edge: both endpoints become nodes; the pair (u, v) holds one
\* attribute dictionary, so a later edge on the same pair replaces the type.
AddEdge(g, e) ==
    [node |-> g.node \cup {e[1], e[2]},
     edge |-> {x \in g.edge : ~(x[1] = e[1] /\ x[2] = e[2])} \cup {e}]

RECURSIVE AddEdgesFrom(_, _, _)
AddEdgesFrom(g, es, k) ==
    IF k = 0 THEN g ELSE AddEdge(AddEdgesFrom(g, es, k - 1), es[k])

Range(q) == {q[i] : i \in DOMAIN q}

BuildDiGraph(ns, es) ==
    AddEdgesFrom([node |-> Range(ns), edge |-> {}], es, Len(es))

(* ------------------------------ viewport ------------------------------- *)
BaseScale == 2
CanvasWidth == 15
CanvasHeight == 12
PixelPoints == {<<5, 4>>, <<10, 8>>, <<10, 4>>}
Buttons == {"up", "down", "other"}

DefaultLim == <<RInt(0), RInt(1)>>
\* The limits the layout fits to the drawn graph.
InitViews == {[x |-> <<RInt(-1), RInt(3)>>, y |-> <<RInt(0), RInt(2)>>]}

Unset == [tag |-> "unset", x |-> 0, y |-> 0]
PanNone == [tag |-> "None", x |-> 0, y |-> 0]
PanAt(x, y) == [tag |-> "pos", x |-> x, y |-> y]

\* event.xdata / event.ydata of a pointer inside the axes, which fill the figure.
XData(lim, px) ==
    RAdd(lim[1], RMul(Rat(px, CanvasWidth), RSub(lim[2], lim[1])))
YData(lim, py) ==
    RAdd(lim[1], RMul(Rat(py, CanvasHeight), RSub(lim[2], lim[1])))

\* Both branches taking the same factor.
ScaleFactorSameBranch(button) ==
    IF button = "up" THEN RInt(BaseScale)
    ELSE IF button = "down" THEN RInt(BaseScale)
    ELSE RInt(1)

\* An unrecognized direction zooming out.
ScaleFactorElseZooms(button) ==
    IF button = "up" THEN Rat(1, BaseScale) ELSE RInt(BaseScale)

ScaleFactor(button) ==
    IF button = "up" THEN Rat(1, BaseScale)
    ELSE IF button = "down" THEN RInt(BaseScale)
    ELSE RInt(1)

\* The two limits with their signs exchanged.
ZoomLimSwapped(cur, data, sf) ==
    LET new_width == RMul(RSub(cur[2], cur[1]), sf)
        rel == RDiv(RSub(cur[2], data), RSub(cur[2], cur[1]))
    IN  <<RAdd(data, RMul(new_width, RSub(RInt(1), rel))),
          RSub(data, RMul(new_width, rel))>>

\* The relative position measured from the lower limit.
ZoomLimRelFromLow(cur, data, sf) ==
    LET new_width == RMul(RSub(cur[2], cur[1]), sf)
        rel == RDiv(RSub(data, cur[1]), RSub(cur[2], cur[1]))
    IN  <<RSub(data, RMul(new_width, RSub(RInt(1), rel))),
          RAdd(data, RMul(new_width, rel))>>

\* The limits zoom_fun sets on one axis, from the current limits, the data
\* coordinate under the pointer and the scale factor.
ZoomLim(cur, data, sf) ==
    LET new_width == RMul(RSub(cur[2], cur[1]), sf)
        rel == RDiv(RSub(cur[2], data), RSub(cur[2], cur[1]))
    IN  <<RSub(data, RMul(new_width, RSub(RInt(1), rel))),
          RAdd(data, RMul(new_width, rel))>>

\* Both axes scaled by the canvas width.
PanShiftByWidth(lim, delta, pixels) ==
    RMul(RInt(delta), RDiv(RSub(lim[2], lim[1]), RInt(CanvasWidth)))

\* dx * scale_x (dy * scale_y): the pixel delta in data units.
PanShift(lim, delta, pixels) ==
    RMul(RInt(delta), RDiv(RSub(lim[2], lim[1]), RInt(pixels)))

\* xlim - dx * scale_x
PanXLim(lim, dx) ==
    LET shift == PanShift(lim, dx, CanvasWidth)
    IN  <<RSub(lim[1], shift), RSub(lim[2], shift)>>

\* ylim + dy * scale_y
PanYLim(lim, dy) ==
    LET shift == PanShift(lim, dy, CanvasHeight)
    IN  <<RAdd(lim[1], shift), RAdd(lim[2], shift)>>

(* ------------------------------ events --------------------------------- *)
Sentinel == "Nothing to Plot, add memories"

Event(kind, inaxes, x, y, button) ==
    [kind |-> kind, inaxes |-> inaxes, x |-> x, y |-> y, button |-> button]

\* The state a callback started from, with the event it was given.
Snapshot(ev) == [ev |-> ev, xlim |-> xlim, ylim |-> ylim, pan |-> pan_start]

Remember(ev) ==
    IF hist = <<>> THEN <<Snapshot(ev)>> ELSE <<Snapshot(ev), hist[1]>>

(* --------------------------- display_graph ----------------------------- *)
\* Query results for the whole display cycle: an empty store, a store with a
\* relationship and an isolated node, and a target whose source has no name.
Scenarios ==
    {<<>>,
     <<[source_name |-> "A", relationship_type |-> "KNOWS", target_name |-> "B"],
       [source_name |-> "B", relationship_type |-> Null, target_name |-> Null],
       [source_name |-> Null, relationship_type |-> Null, target_name |-> Null]>>,
     <<[source_name |-> Null, relationship_type |-> "KNOWS", target_name |-> "B"]>>}

InitWith(inputs) ==
    /\ pc = "start"
    /\ driver = "unopened"
    /\ nReads = 0
    /\ session = "none"
    /\ triples \in inputs
    /\ nodes = <<>>
    /\ edges = <<>>
    /\ G = EmptyGraph
    /\ fig = "none"
    /\ listeners = <<>>
    /\ retval = "unset"
    /\ xlim = DefaultLim
    /\ ylim = DefaultLim
    /\ pan_start = Unset
    /\ err = "none"
    /\ drew = FALSE
    /\ hist = <<>>
    /\ nEvents = 0

Init == InitWith(Scenarios)

InitAssembly == InitWith(SeqsUpTo(Records, MaxTriples))

viewVars == <<xlim, ylim, pan_start, err, drew, hist, nEvents>>
dataVars == <<triples, nodes, edges, G>>

OpenDriver ==
    /\ pc = "start"
    /\ driver' = "open"
    /\ pc' = "query"
    /\ UNCHANGED <<nReads, session, dataVars, fig, listeners, retval, viewVars>>

\* with driver.session() as session:
OpenSession ==
    /\ pc = "query"
    /\ session' = "open"
    /\ pc' = "read"
    /\ UNCHANGED <<driver, nReads, dataVars, fig, listeners, retval, viewVars>>

\* nodes, edges = session.execute_read(get_graph_data)
ReadGraph ==
    /\ pc = "read"
    /\ nReads' = nReads + 1
    /\ nodes' \in ListsOf(NodeSetOf(triples, Len(triples)))
    /\ edges' = EdgeListOf(triples, Len(triples))
    /\ pc' = "end_session"
    /\ UNCHANGED <<driver, session, triples, G, fig, listeners, retval, viewVars>>

\* The store is unreachable or refuses the query: the with block closes the
\* session and the exception leaves display_graph.
ReadGraphRaises ==
    /\ pc = "read"
    /\ nReads' = nReads + 1
    /\ session' = "closed"
    /\ pc' = "raised"
    /\ UNCHANGED <<driver, dataVars, fig, listeners, retval, viewVars>>

\* A session that outlives its block.
CloseSessionLeavesOpen ==
    /\ pc = "end_session"
    /\ pc' = "build"
    /\ UNCHANGED <<driver, nReads, session, dataVars, fig, listeners, retval, viewVars>>

\* The with block ends: the session is closed.
CloseSession ==
    /\ pc = "end_session"
    /\ session' = "closed"
    /\ pc' = "build"
    /\ UNCHANGED <<driver, nReads, dataVars, fig, listeners, retval, viewVars>>

HasNoneEndpoint(es) == \E i \in DOMAIN es : es[i][1] = Null \/ es[i][2] = Null

BuildGraph ==
    /\ pc = "build"
    /\ G' = BuildDiGraph(nodes, edges)
    /\ pc' = "figure"
    /\ UNCHANGED <<driver, nReads, session, triples, nodes, edges, fig, listeners, retval, viewVars>>

\* networkx releases that reject None as a node raise ValueError from add_edges_from.
BuildGraphRaises ==
    /\ pc = "build"
    /\ HasNoneEndpoint(edges)
    /\ pc' = "raised"
    /\ UNCHANGED <<driver, nReads, session, dataVars, fig, listeners, retval, viewVars>>

MakeFigure ==
    /\ pc = "figure"
    /\ fig' = "open"
    /\ pc' = "render"
    /\ UNCHANGED <<driver, nReads, session, dataVars, listeners, retval, viewVars>>

\* ngGraph(...) lays the graph out and fits the axes limits to it.
RenderOk ==
    /\ pc = "render"
    /\ G.node # {}
    /\ \E v \in InitViews : xlim' = v.x /\ ylim' = v.y
    /\ pc' = "wire_zoom"
    /\ UNCHANGED <<driver, nReads, session, dataVars, fig, listeners, retval,
                   pan_start, err, drew, hist, nEvents>>

\* No try block: the engine's exception leaves display_graph.
RenderFailsPropagates ==
    /\ pc = "render"
    /\ pc' = "raised"
    /\ UNCHANGED <<driver, nReads, session, dataVars, fig, listeners, retval, viewVars>>

\* except: clean up the figure and return the message.
RenderFails ==
    /\ pc = "render"
    /\ fig' = "closed"
    /\ retval' = Sentinel
    /\ pc' = "returned"
    /\ UNCHANGED <<driver, nReads, session, dataVars, listeners, viewVars>>

\* zoom = zoom_factory(ax)
ConnectZoom ==
    /\ pc = "wire_zoom"
    /\ listeners' = Append(listeners, "scroll_event")
    /\ pc' = "wire_pan"
    /\ UNCHANGED <<driver, nReads, session, dataVars, fig, retval, viewVars>>

ConnectPan ==
    /\ pc = "wire_pan"
    /\ listeners' = listeners \o
          <<"button_press_event", "button_release_event", "motion_notify_event">>
    /\ pc' = "show"
    /\ UNCHANGED <<driver, nReads, session, dataVars, fig, retval, viewVars>>

\* plt.show() opens the window and runs the event loop until the window closes.
Show ==
    /\ pc = "show"
    /\ fig' = "shown"
    /\ pc' = "showing"
    /\ UNCHANGED <<driver, nReads, session, dataVars, listeners, retval, viewVars>>

\* The user closes the window: plt.show() returns and no callback runs again.
CloseWindow ==
    /\ pc = "showing"
    /\ fig' = "closed"
    /\ pc' = "close_driver"
    /\ hist' = <<>>
    /\ UNCHANGED <<driver, nReads, session, dataVars, listeners, retval,
                   xlim, ylim, pan_start, err, drew, nEvents>>

CloseDriver ==
    /\ pc = "close_driver"
    /\ driver' = "closed"
    /\ retval' = "None"
    /\ pc' = "returned"
    /\ UNCHANGED <<nReads, session, dataVars, fig, listeners, viewVars>>

(* ----------------------------- callbacks ------------------------------- *)
\* The event loop delivers an event to a connected callback; an exception a
\* callback raises is reported by the loop, which then goes on.
Delivering(name) ==
    /\ pc = "showing"
    /\ \E i \in DOMAIN listeners : listeners[i] = name
    /\ nEvents < MaxEvents

lifeVars == <<pc, driver, nReads, session, triples, nodes, edges, G, fig, listeners, retval>>

\* zoom_fun subtracts event.xdata, which is None when the pointer is off the axes.
ZoomRaises(ev) == ~ev.inaxes

\* A zoom that also ends the drag.
zoom_fun_ends_drag(ev) ==
    /\ Delivering("scroll_event")
    /\ IF ZoomRaises(ev)
       THEN /\ err' = "TypeError"
            /\ drew' = FALSE
            /\ UNCHANGED <<xlim, ylim>>
       ELSE /\ xlim' = ZoomLim(xlim, XData(xlim, ev.x), ScaleFactor(ev.button))
            /\ ylim' = ZoomLim(ylim, YData(ylim, ev.y), ScaleFactor(ev.button))
            /\ err' = "none"
            /\ drew' = TRUE
    /\ pan_start' = PanNone
    /\ hist' = Remember(ev)
    /\ nEvents' = nEvents + 1
    /\ UNCHANGED lifeVars

zoom_fun(ev) ==
    /\ Delivering("scroll_event")
    /\ IF ZoomRaises(ev)
       THEN /\ err' = "TypeError"
            /\ drew' = FALSE
            /\ UNCHANGED <<xlim, ylim>>
       ELSE /\ xlim' = ZoomLim(xlim, XData(xlim, ev.x), ScaleFactor(ev.button))
            /\ ylim' = ZoomLim(ylim, YData(ylim, ev.y), ScaleFactor(ev.button))
            /\ err' = "none"
            /\ drew' = TRUE
    /\ hist' = Remember(ev)
    /\ nEvents' = nEvents + 1
    /\ UNCHANGED <<lifeVars, pan_start>>

PressRecords(ev) == ev.inaxes

on_press(ev) ==
    /\ Delivering("button_press_event")
    /\ pan_start' = IF PressRecords(ev) THEN PanAt(ev.x, ev.y) ELSE pan_start
    /\ err' = "none"
    /\ drew' = FALSE
    /\ hist' = Remember(ev)
    /\ nEvents' = nEvents + 1
    /\ UNCHANGED <<lifeVars, xlim, ylim>>

\* A release that never clears the anchor.
ReleaseResetsNever(ev) == FALSE

ReleaseResets(ev) == ev.inaxes

on_release(ev) ==
    /\ Delivering("button_release_event")
    /\ pan_start' = IF ReleaseResets(ev) THEN PanNone ELSE pan_start
    /\ err' = "none"
    /\ drew' = FALSE
    /\ hist' = Remember(ev)
    /\ nEvents' = nEvents + 1
    /\ UNCHANGED <<lifeVars, xlim, ylim>>

\* `event.inaxes != ax or not ax._pan_start`: the right operand is evaluated
\* only for an event inside the axes, and reads an attribute that exists only
\* once on_press or on_release has assigned it.
MotionRaises(ev, pan) == ev.inaxes /\ pan.tag = "unset"

\* The guard without its test of ax._pan_start.
MotionReturnsNoPanTest(ev, pan) == ~ev.inaxes

MotionReturns(ev, pan) == ~ev.inaxes \/ pan.tag = "None"

\* The anchor left where the drag began.
MotionAnchorKept(ev, pan) == pan

\* ax._pan_start = (event.x, event.y) at the end of a pan.
MotionAnchor(ev, pan) == PanAt(ev.x, ev.y)

on_motion(ev) ==
    /\ Delivering("motion_notify_event")
    /\ IF MotionRaises(ev, pan_start)
       THEN /\ err' = "AttributeError"
            /\ drew' = FALSE
            /\ UNCHANGED <<xlim, ylim, pan_start>>
       ELSE IF MotionReturns(ev, pan_start)
       THEN /\ err' = "none"
            /\ drew' = FALSE
            /\ UNCHANGED <<xlim, ylim, pan_start>>
       ELSE /\ xlim' = PanXLim(xlim, ev.x - pan_start.x)
            /\ ylim' = PanYLim(ylim, ev.y - pan_start.y)
            /\ pan_start' = MotionAnchor(ev, pan_start)
            /\ err' = "none"
            /\ drew' = TRUE
    /\ hist' = Remember(ev)
    /\ nEvents' = nEvents + 1
    /\ UNCHANGED lifeVars

\* The pixel position of a pointer that has left the axes, which fill the canvas.
OffPoint == <<-1, 6>>

\* A pointer position inside the axes, or an event off the axes.
PointerEvents(kind, points, buttons) ==
    {Event(kind, TRUE, p[1], p[2], b) : p \in points, b \in buttons}
    \cup {Event(kind, FALSE, OffPoint[1], OffPoint[2], b) : b \in buttons}

Scroll == \E ev \in PointerEvents("scroll", PixelPoints, Buttons) : zoom_fun(ev)
Press == \E ev \in PointerEvents("press", PixelPoints, {"left"}) : on_press(ev)
Release == \E ev \in PointerEvents("release", {<<5, 4>>}, {"left"}) : on_release(ev)
Motion == \E ev \in PointerEvents("motion", PixelPoints, {"none"}) : on_motion(ev)

Next ==
    \/ OpenDriver
    \/ OpenSession
    \/ ReadGraph
    \/ ReadGraphRaises
    \/ CloseSession
    \/ BuildGraph
    \/ BuildGraphRaises
    \/ MakeFigure
    \/ RenderOk
    \/ RenderFails
    \/ ConnectZoom
    \/ ConnectPan
    \/ Show
    \/ Scroll
    \/ Press
    \/ Release
    \/ Motion
    \/ CloseWindow
    \/ CloseDriver

Spec == Init /\ [][Next]_vars

NextAssembly ==
    \/ OpenDriver
    \/ OpenSession
    \/ ReadGraph
    \/ ReadGraphRaises
    \/ CloseSession
    \/ BuildGraph
    \/ BuildGraphRaises
    \/ MakeFigure
    \/ RenderOk
    \/ RenderFails

SpecAssembly == InitAssembly /\ [][NextAssembly]_vars

(* ------------------------------ properties ----------------------------- *)
Happened == hist # <<>>
Last == hist[1]
Idle(pan) == pan.tag \in {"unset", "None"}
Dragging(pan) == pan.tag = "pos"
Unchanged(h) == xlim = h.xlim /\ ylim = h.ylim /\ pan_start = h.pan
Width(lim) == RSub(lim[2], lim[1])
RelPos(lim, p) == RDiv(RSub(lim[2], p), Width(lim))
StrictlyInside(lim, p) == RLt(lim[1], p) /\ RLt(p, lim[2])
IsZoom(h) == h.ev.kind = "scroll" /\ h.ev.inaxes /\ h.ev.button \in {"up", "down"}
AnchorX(h) == XData(h.xlim, h.ev.x)
AnchorY(h) == YData(h.ylim, h.ev.y)
Assembled ==
    pc \in {"end_session", "build", "figure", "render", "wire_zoom", "wire_pan", "show",
            "showing", "close_driver", "returned"}
Built == Assembled /\ pc \notin {"end_session", "build"}

\* C1: after any sequence of zoom and drag events the axes limits still
\* satisfy xMax > xMin and yMax > yMin.
ViewportNeverCollapses ==
    RLt(xlim[1], xlim[2]) /\ RLt(ylim[1], ylim[2])

\* A zoom in the middle of a drag followed by a pan, both of which moved the limits.
ViewportZoomedAndPanned ==
    /\ Len(hist) = 2
    /\ IsZoom(hist[2]) /\ hist[2].xlim # hist[1].xlim
    /\ hist[1].ev.kind = "motion" /\ hist[1].ev.inaxes /\ Dragging(hist[1].pan)
    /\ xlim # hist[1].xlim /\ ylim # hist[1].ylim

\* C2: whenever display_graph has returned, the driver it opened is closed.
DriverClosedOnReturn ==
    pc = "returned" => driver = "closed"

\* C3: a motion event delivered while the drag state is Idle raises nothing and
\* leaves the limits and the drag state as they were, and a press outside the
\* axes while Idle leaves the state Idle.
IdleMotionIsNoOp ==
    Happened =>
      /\ (Last.ev.kind = "motion" /\ Idle(Last.pan)) => (err = "none" /\ Unchanged(Last))
      /\ (Last.ev.kind = "press" /\ ~Last.ev.inaxes /\ Idle(Last.pan)) => Idle(pan_start)

\* C4: an event whose pointer is outside the axes raises nothing and leaves
\* the limits and the drag state as they were, in every state.
OutOfCanvasIsNoOp ==
    (Happened /\ ~Last.ev.inaxes) => (err = "none" /\ Unchanged(Last))

NonNullNames(recs) ==
    {n \in {recs[i].source_name : i \in DOMAIN recs}
           \cup {recs[i].target_name : i \in DOMAIN recs} : n # Null}

\* C5: the node list returned by get_graph_data holds every distinct non-null
\* source or target name of the records exactly once, and nothing else.
NodesAreTheNonNullNames ==
    Assembled =>
      /\ Range(nodes) = NonNullNames(triples)
      /\ \A i, j \in DOMAIN nodes : nodes[i] = nodes[j] => i = j

RECURSIVE EdgesPerTarget(_, _)
EdgesPerTarget(recs, k) ==
    IF k = 0 THEN <<>>
    ELSE IF recs[k].target_name # Null
         THEN Append(EdgesPerTarget(recs, k - 1),
                     <<recs[k].source_name, recs[k].target_name,
                       recs[k].relationship_type>>)
         ELSE EdgesPerTarget(recs, k - 1)

\* C6: the edge list returned by get_graph_data holds one edge (source, target,
\* relation) per record with a non-null target, in input order, records with a
\* null source included, and none for a record without a target.
OneEdgePerTarget ==
    Assembled => edges = EdgesPerTarget(triples, Len(triples))

\* C7: every edge made from a record with both names present has both of its
\* endpoints in the node list returned by the same call.
EdgeEndpointsAreNodes ==
    Assembled =>
      \A i \in DOMAIN edges :
        (edges[i][1] # Null /\ edges[i][2] # Null) =>
          (edges[i][1] \in Range(nodes) /\ edges[i][2] \in Range(nodes))

\* C8: the graph handed to the renderer holds one edge per edge of the list,
\* each with its own relation type: parallel edges are neither merged nor
\* relabelled.
GraphKeepsEveryEdge ==
    Built =>
      /\ \A i \in DOMAIN edges : edges[i] \in G.edge
      /\ Cardinality(G.edge) = Len(edges)

\* C9: after a zoom in or out at an anchor strictly inside the limits, the
\* anchor's relative position within the new limits equals its relative
\* position within the old ones, and width and height are multiplied by k.
ZoomKeepsAnchor ==
    (/\ Happened
     /\ IsZoom(Last)
     /\ StrictlyInside(Last.xlim, AnchorX(Last))
     /\ StrictlyInside(Last.ylim, AnchorY(Last))) =>
      LET k == IF Last.ev.button = "up" THEN Rat(1, BaseScale) ELSE RInt(BaseScale)
      IN  /\ RelPos(xlim, AnchorX(Last)) = RelPos(Last.xlim, AnchorX(Last))
          /\ RelPos(ylim, AnchorY(Last)) = RelPos(Last.ylim, AnchorY(Last))
          /\ Width(xlim) = RMul(Width(Last.xlim), k)
          /\ Width(ylim) = RMul(Width(Last.ylim), k)

\* A zoom in at an anchor that is not the centre of the limits.
ZoomedInOffCentre ==
    /\ Happened
    /\ IsZoom(Last) /\ Last.ev.button = "up"
    /\ StrictlyInside(Last.xlim, AnchorX(Last))
    /\ RelPos(Last.xlim, AnchorX(Last)) # Rat(1, 2)
    /\ RelPos(Last.ylim, AnchorY(Last)) # Rat(1, 2)
    /\ xlim # Last.xlim

SameAnchor(h1, h2) == AnchorX(h1) = AnchorX(h2) /\ AnchorY(h1) = AnchorY(h2)

\* C10: a zoom in followed at once by a zoom out at the same anchor, or a zoom
\* out followed by a zoom in, restores the limits.
ZoomInOutRestores ==
    (/\ Len(hist) = 2
     /\ IsZoom(hist[2]) /\ IsZoom(hist[1])
     /\ hist[2].ev.button # hist[1].ev.button
     /\ SameAnchor(hist[2], hist[1])) =>
      (xlim = hist[2].xlim /\ ylim = hist[2].ylim)

\* A zoom in then a zoom out at one anchor, the zoom in having moved the limits.
ZoomedInThenOut ==
    /\ Len(hist) = 2
    /\ IsZoom(hist[2]) /\ IsZoom(hist[1])
    /\ hist[2].ev.button = "up" /\ hist[1].ev.button = "down"
    /\ SameAnchor(hist[2], hist[1])
    /\ hist[1].xlim # hist[2].xlim
    /\ pc = "showing"

IsPan(h) == h.ev.kind = "motion" /\ h.ev.inaxes /\ Dragging(h.pan)

\* C11: two successive in-axes motion samples of a drag leave the limits and
\* the anchor where a single motion sample with the summed delta, from the
\* same limits and anchor, leaves them.
PanStepsAddUp ==
    (Len(hist) = 2 /\ IsPan(hist[2]) /\ IsPan(hist[1])) =>
      /\ xlim = PanXLim(hist[2].xlim, hist[1].ev.x - hist[2].pan.x)
      /\ ylim = PanYLim(hist[2].ylim, hist[1].ev.y - hist[2].pan.y)
      /\ pan_start = PanAt(hist[1].ev.x, hist[1].ev.y)

\* Two pans in a row, each with a delta that is not zero.
PannedTwice ==
    /\ Len(hist) = 2 /\ IsPan(hist[2]) /\ IsPan(hist[1])
    /\ hist[2].ev.x # hist[2].pan.x
    /\ hist[1].ev.y # hist[1].pan.y
    /\ xlim # hist[1].xlim

\* C12: when the layout engine fails, for an empty graph or any other, no
\* exception leaves display_graph: the figure is released, the message is
\* returned, no listener is connected and the window is never shown.
RenderFailureReturnsMessage ==
    /\ [][(pc = "render" /\ pc' # "wire_zoom") =>
            /\ pc' = "returned"
            /\ retval' = Sentinel
            /\ fig' = "closed"
            /\ listeners' = <<>>]_vars
    /\ [](retval = Sentinel =>
            /\ pc = "returned"
            /\ fig = "closed"
            /\ listeners = <<>>
            /\ nEvents = 0)

\* The message returned for an empty store.
EmptyStoreGotMessage ==
    triples = <<>> /\ G.node = {} /\ retval = Sentinel /\ pc = "returned"

InCanvas(h, kind) == h.ev.kind = kind /\ h.ev.inaxes

\* C13: an in-axes press leaves the drag state Dragging at the press position
\* and an in-axes release leaves it Idle, whatever it was; a motion event that
\* starts after a release and before the next press does not move the limits;
\* and the drag state changes only in the press, release and motion callbacks,
\* from Idle to Dragging only by an in-axes press.
DragStateMachine ==
    Happened =>
      /\ InCanvas(Last, "press") => pan_start = PanAt(Last.ev.x, Last.ev.y)
      /\ InCanvas(Last, "release") => pan_start = PanNone
      /\ (Last.ev.kind = "motion" /\ Last.pan = PanNone) =>
            (xlim = Last.xlim /\ ylim = Last.ylim /\ pan_start = PanNone)
      /\ pan_start # Last.pan => Last.ev.kind \in {"press", "release", "motion"}
      /\ (Idle(Last.pan) /\ Dragging(pan_start)) => InCanvas(Last, "press")

\* A drag ended by an in-axes release, then an in-axes motion.
MovedAfterRelease ==
    /\ Len(hist) = 2
    /\ InCanvas(hist[2], "release") /\ Dragging(hist[2].pan)
    /\ InCanvas(hist[1], "motion")
    /\ pc = "showing"

\* C14 as stated: after every motion sample delivered while Dragging, off the
\* axes or on them, the anchor is that sample's screen position.
AnchorFollowsEveryMotion ==
    (Happened /\ Last.ev.kind = "motion" /\ Dragging(Last.pan)) =>
      pan_start = PanAt(Last.ev.x, Last.ev.y)

\* C14: after every in-axes motion sample delivered while Dragging the anchor
\* is that sample's screen position, and a sample off the axes leaves the
\* anchor alone, so each pan uses the delta since the preceding in-axes sample.
AnchorFollowsCanvasMotion ==
    /\ (Happened /\ IsPan(Last)) => pan_start = PanAt(Last.ev.x, Last.ev.y)
    /\ (Happened /\ Last.ev.kind = "motion" /\ ~Last.ev.inaxes) => pan_start = Last.pan
    /\ (Len(hist) = 2 /\ IsPan(hist[2]) /\ IsPan(hist[1])) =>
          /\ xlim = PanXLim(hist[1].xlim, hist[1].ev.x - hist[2].ev.x)
          /\ ylim = PanYLim(hist[1].ylim, hist[1].ev.y - hist[2].ev.y)

\* Two in-axes samples of one drag, each of which moved the anchor.
AnchorMovedTwice ==
    /\ Len(hist) = 2 /\ IsPan(hist[2]) /\ IsPan(hist[1])
    /\ hist[1].pan # hist[2].pan
    /\ pan_start # hist[1].pan
    /\ pan_start = PanAt(hist[1].ev.x, hist[1].ev.y)

AllListeners ==
    <<"scroll_event", "button_press_event", "button_release_event", "motion_notify_event">>

\* C15: the store is read once, in a session that is closed before the figure
\* exists; listeners are connected only after a successful render and all four
\* before the window is shown; and the driver is closed only after the window
\* has been closed.
DisplayCycleOrder ==
    /\ nReads <= 1
    /\ fig # "none" => (nReads = 1 /\ session = "closed")
    /\ listeners # <<>> =>
          /\ pc \in {"wire_pan", "show", "showing", "close_driver", "returned"}
          /\ retval # Sentinel
    /\ pc \in {"wire_zoom", "wire_pan", "show"} => fig = "open"
    /\ fig = "shown" => listeners = AllListeners
    /\ driver = "closed" => (fig = "closed" /\ listeners = AllListeners /\ pc = "returned")

\* A whole cycle: events were served, the window was closed, the driver is closed.
CycleCompleted ==
    driver = "closed" /\ nEvents > 0 /\ nReads = 1 /\ retval = "None"

\* C16: a scroll event whose button is neither 'up' nor 'down' leaves all four
\* limits as they were, for any limits and any anchor inside the axes.
OtherButtonKeepsLimits ==
    (Happened /\ InCanvas(Last, "scroll") /\ Last.ev.button \notin {"up", "down"}) =>
      (xlim = Last.xlim /\ ylim = Last.ylim)

\* A scroll of an unrecognized direction served inside the axes, after a zoom.
OtherButtonScrolled ==
    /\ Len(hist) = 2
    /\ IsZoom(hist[2])
    /\ InCanvas(Last, "scroll") /\ Last.ev.button = "other"
    /\ err = "none"

\* C17: every pan (in-axes motion while Dragging) and every zoom served inside
\* the axes requests a redraw in its own callback, and the events that are
\* gated out (press, release or motion off the axes, motion while Idle)
\* request none.
RedrawAfterPanOrZoom ==
    Happened =>
      /\ IsPan(Last) => drew
      /\ InCanvas(Last, "scroll") => drew
      /\ (~Last.ev.inaxes /\ Last.ev.kind \in {"press", "release", "motion"}) => ~drew
      /\ (Last.ev.kind = "motion" /\ Idle(Last.pan)) => ~drew

\* A pan that moved the limits and redrew, right after the press that began the drag.
RedrewAfterPan ==
    /\ Len(hist) = 2
    /\ IsPan(Last) /\ drew /\ xlim # Last.xlim
    /\ hist[2].ev.kind = "press"

\* C18: a pan lowers xMin and xMax by dx * width / canvas width and raises yMin
\* and yMax by dy * height / canvas height, so it keeps width and height; press
\* and release keep them too, and a zoom multiplies both by one factor k.
PanIsRigid ==
    Happened =>
      /\ IsPan(Last) =>
           LET sx == RDiv(RMul(RInt(Last.ev.x - Last.pan.x), Width(Last.xlim)),
                          RInt(CanvasWidth))
               sy == RDiv(RMul(RInt(Last.ev.y - Last.pan.y), Width(Last.ylim)),
                          RInt(CanvasHeight))
           IN  /\ xlim = <<RSub(Last.xlim[1], sx), RSub(Last.xlim[2], sx)>>
               /\ ylim = <<RAdd(Last.ylim[1], sy), RAdd(Last.ylim[2], sy)>>
      /\ Last.ev.kind \in {"press", "release", "motion"} =>
           (Width(xlim) = Width(Last.xlim) /\ Width(ylim) = Width(Last.ylim))
      /\ InCanvas(Last, "scroll") =>
           \E k \in {Rat(1, BaseScale), RInt(1), RInt(BaseScale)} :
              /\ Width(xlim) = RMul(Width(Last.xlim), k)
              /\ Width(ylim) = RMul(Width(Last.ylim), k)

\* A pan with a delta on both axes, after a zoom changed the width.
PannedDiagonally ==
    /\ Happened /\ IsPan(Last)
    /\ Last.ev.x # Last.pan.x /\ Last.ev.y # Last.pan.y
    /\ xlim # Last.xlim /\ ylim # Last.ylim
    /\ Width(xlim) # RInt(4)

\* C19: a scroll event never changes ax._pan_start, so a zoom in the middle of
\* a drag leaves the drag active with its anchor, and a press or a release
\* never changes the limits.
HandlersKeepToTheirState ==
    Happened =>
      /\ Last.ev.kind = "scroll" => pan_start = Last.pan
      /\ Last.ev.kind \in {"press", "release"} => (xlim = Last.xlim /\ ylim = Last.ylim)

\* A zoom in served while Dragging.
ZoomedMidDrag ==
    /\ Happened
    /\ IsZoom(Last) /\ Last.ev.button = "up"
    /\ Dragging(Last.pan) /\ Dragging(pan_start)
    /\ xlim # Last.xlim

====
